---- MODULE Spec2Model ----
(***************************************************************************)
(* Job Queue Worker (tools/worker.py) and Pipeline Runner                  *)
(* (tools/orchestrator.py) over the financial_records store, and the two   *)
(* tools the runner calls: the Excel parser (tools/tool_parse_excel.py)    *)
(* and the analyzer (tools/tool_analyze_finances.py), each followed as a   *)
(* function of its input under a specification of its own.                 *)
(*                                                                         *)
(* A store call (.execute()) either returns or raises; a call that raises  *)
(* leaves the store as it was.  Every external call (store, storage        *)
(* download, temp-file creation, subprocess) may raise.                    *)
(***************************************************************************)
EXTENDS Integers, Sequences, FiniteSets, TLC

\* ------------------------------------------------------------------ bounds
NumRecords == 2
ClaimCap == 2
RaceRecords == 1

\* ----------------------------------------------------------------- domains
Ids == 1..NumRecords
AllWorkers == {"w1", "w2"}
Cli == "cli"
Runners == AllWorkers \cup {Cli}
NoJob == 0
Unbound == <<>>
Statuses == {"PENDING", "PROCESSING", "COMPLETED", "FAILED"}
SourceTypes == {"EXCEL", "PDF", "OTHER"}
ExcelOutcomes == {"document", "error_key", "tool_failed"}

VARIABLES
    running,            \* worker processes started (main_loop instances)
    status,             \* financial_records.status by id ("ABSENT": no such row)
    parsed_data,        \* financial_records.parsed_data by id
    analysis_payload,   \* financial_records.analysis_payload by id
    pc,                 \* position of each worker in main_loop/process_pending_records
    records,            \* response.data of the worker's last PENDING query
    idx,                \* position of the for loop in records
    temp_path,          \* the local temp_path of process_pending_records
    exc,                \* an exception is propagating out of the except handler
    dl,                 \* outcome of download_file for the current record
    rc,                 \* outcome of subprocess.run for the current record
    tmpfiles,           \* worker temp files on disk
    rpc,                \* position of each Pipeline Runner process
    rjob,               \* --update-id of each Pipeline Runner process
    rdoc,               \* parsed_data held by the runner
    rcode,              \* exit code of the runner process
    jsonfiles,          \* the runner's intermediate JSON files on disk
    persisted,          \* what became of the runner's persistence step
    claims,             \* per record: number of successful PROCESSING writes
    claimers,           \* per record: the workers whose PROCESSING write succeeded
    items,              \* tool_analyze_finances: the items of the input document
    kpis,               \* tool_analyze_finances: the result of calculate_kpis
    improvements,       \* tool_analyze_finances: the rule ids of the improvements
    apc,                \* tool_analyze_finances: position in analyze()
    columns,            \* tool_parse_excel: df.columns of the input table
    rows,               \* tool_parse_excel: the data rows of the input table
    result,             \* tool_parse_excel: what normalize_dataframe returned
    again,              \* tool_parse_excel: what a second call on the same df returned
    npc                 \* tool_parse_excel: position in main()

wvars == <<pc, records, idx, temp_path, exc, dl, rc>>
rvars == <<rpc, rjob, rdoc, rcode>>
store == <<status, parsed_data, analysis_payload>>
vars == <<running, status, parsed_data, analysis_payload, pc, records, idx,
          temp_path, exc, dl, rc, tmpfiles, rpc, rjob, rdoc, rcode, jsonfiles,
          persisted, claims, claimers, items, kpis, improvements, apc,
          columns, rows, result, again, npc>>

\* The state of one run of the analyzer tool.
avars == <<items, kpis, improvements, apc>>

\* The state of one run of the Excel parser tool.
nvars == <<columns, rows, result, again, npc>>

\* What no worker or runner step changes.
outer == <<running, avars, nvars>>

\* The state of the worker and runner processes and of the store.
procs == <<running, store, wvars, rvars, tmpfiles, jsonfiles, persisted, claims,
           claimers>>

\* The record the for loop of worker w is at.
Cur(w) == records[w][idx[w]]

\* --------------------------------------------------------------- the store
SelectAll(st) ==
    LET Present(r) == st[r] # "ABSENT"
    IN  SelectSeq([i \in 1..NumRecords |-> i], Present)

SelectUnfinished(st) ==
    LET Unfinished(r) == st[r] \in {"PENDING", "PROCESSING"}
    IN  SelectSeq([i \in 1..NumRecords |-> i], Unfinished)

\* .select("*").eq("status", "PENDING"): the rows whose status is PENDING.
SelectPending(st) ==
    LET Pending(r) == st[r] = "PENDING"
    IN  SelectSeq([i \in 1..NumRecords |-> i], Pending)

\* .update({"status": s}).eq("id", r): every row with that id gets status s.
UpdateStatus(st, r, s) ==
    IF st[r] = "ABSENT" THEN st ELSE [st EXCEPT ![r] = s]

Bump(n) == IF n < ClaimCap THEN n + 1 ELSE n

\* -------------------------------------------------------------------- Init
InitStore ==
    /\ status \in [Ids -> Statuses \cup {"ABSENT"}]
    /\ parsed_data = [r \in Ids |-> "NULL"]
    /\ analysis_payload = [r \in Ids |-> "NULL"]

InitProcs ==
    /\ pc = [w \in AllWorkers |-> "poll"]
    /\ records = [w \in AllWorkers |-> <<>>]
    /\ idx = [w \in AllWorkers |-> 1]
    /\ temp_path = [w \in AllWorkers |-> Unbound]
    /\ exc = [w \in AllWorkers |-> FALSE]
    /\ dl = [w \in AllWorkers |-> "none"]
    /\ rc = [w \in AllWorkers |-> "none"]
    /\ tmpfiles = {}
    /\ rpc = [p \in Runners |-> "idle"]
    /\ rjob = [p \in Runners |-> NoJob]
    /\ rdoc = [p \in Runners |-> "NULL"]
    /\ rcode = [p \in Runners |-> 0]
    /\ jsonfiles = {}
    /\ persisted = [p \in Runners |-> "none"]
    /\ claims = [r \in Ids |-> 0]
    /\ claimers = [r \in Ids |-> {}]

\* No run of the analyzer tool is being followed.
NoKpis == <<>>
AnalyzerIdle ==
    /\ items = <<>>
    /\ kpis = NoKpis
    /\ improvements = <<>>
    /\ apc = "idle"

\* No run of the Excel parser tool is being followed.
NoResult ==
    [kind |-> "pending", financial_period |-> 0, currency |-> "", items |-> <<>>,
     error |-> ""]
ParserIdle ==
    /\ columns = <<>>
    /\ rows = <<>>
    /\ result = NoResult
    /\ again = NoResult
    /\ npc = "idle"

Init ==
    /\ running = {"w1"}
    /\ InitStore
    /\ InitProcs
    /\ AnalyzerIdle
    /\ ParserIdle

\* ------------------------------------------------------------------ worker
\* main_loop calls process_pending_records: the PENDING query (lines 37-45).
\* The query may raise (caught by main_loop); an empty result returns.
FetchFrame ==
    UNCHANGED <<outer, persisted, store, idx, temp_path, exc, dl, rc, tmpfiles, rvars,
                jsonfiles, claims, claimers>>

FetchRaised(w) ==
    /\ pc[w] = "poll"
    /\ pc' = [pc EXCEPT ![w] = "sleep"]
    /\ UNCHANGED records
    /\ FetchFrame

FetchOk(w) ==
    /\ pc[w] = "poll"
    /\ LET got == SelectPending(status)
       IN  /\ records' = [records EXCEPT ![w] = got]
           /\ pc' = [pc EXCEPT ![w] = IF got = <<>> THEN "sleep" ELSE "claim"]
    /\ FetchFrame

Fetch(w) == FetchRaised(w) \/ FetchOk(w)

\* process_pending_records is left, by return or by an exception that
\* main_loop catches (lines 104-107); its locals are gone.
Leave(w) ==
    /\ pc' = [pc EXCEPT ![w] = "sleep"]
    /\ records' = [records EXCEPT ![w] = <<>>]
    /\ idx' = [idx EXCEPT ![w] = 1]
    /\ temp_path' = [temp_path EXCEPT ![w] = Unbound]

ClaimNoWrite(w) ==
    /\ pc[w] = "claim"
    /\ \/ /\ Leave(w)
       \/ /\ pc' = [pc EXCEPT ![w] = "mktemp"]
          /\ UNCHANGED <<records, idx, temp_path>>
    /\ UNCHANGED <<outer, store, claims, claimers, persisted, exc, dl, rc, tmpfiles,
                   rvars, jsonfiles>>

\* Line 51: the unconditional PROCESSING update, outside the try block. An
\* exception here leaves process_pending_records.
Claim(w) ==
    /\ pc[w] = "claim"
    /\ \/ /\ Leave(w)
          /\ UNCHANGED <<status, claims, claimers>>
       \/ /\ status' = UpdateStatus(status, Cur(w), "PROCESSING")
          /\ claims' = [claims EXCEPT ![Cur(w)] = Bump(@)]
          /\ claimers' = [claimers EXCEPT ![Cur(w)] = @ \cup {w}]
          /\ pc' = [pc EXCEPT ![w] = "mktemp"]
          /\ UNCHANGED <<records, idx, temp_path>>
    /\ UNCHANGED <<outer, persisted, parsed_data, analysis_payload, exc, dl, rc, tmpfiles,
                   rvars, jsonfiles>>

\* Lines 56-60: read file_url and file_name, create the temp file. splitext
\* raises on a null file_name and NamedTemporaryFile may raise; temp_path is
\* assigned only when the file was created.
MakeTemp(w) ==
    /\ pc[w] = "mktemp"
    /\ \/ /\ pc' = [pc EXCEPT ![w] = "except"]
          /\ UNCHANGED <<temp_path, tmpfiles>>
       \/ /\ tmpfiles' = tmpfiles \cup {<<w, Cur(w)>>}
          /\ temp_path' = [temp_path EXCEPT ![w] = <<w, Cur(w)>>]
          /\ pc' = [pc EXCEPT ![w] = "download"]
    /\ UNCHANGED <<outer, persisted, store, records, idx, exc, dl, rc, rvars, jsonfiles,
                   claims, claimers>>

\* Lines 28-31, 63: download_file into temp_path.
Download(w) ==
    /\ pc[w] = "download"
    /\ \/ /\ dl' = [dl EXCEPT ![w] = "raised"]
          /\ pc' = [pc EXCEPT ![w] = "except"]
       \/ /\ dl' = [dl EXCEPT ![w] = "ok"]
          /\ pc' = [pc EXCEPT ![w] = "run"]
    /\ UNCHANGED <<outer, persisted, store, records, idx, temp_path, exc, rc, tmpfiles,
                   rvars, jsonfiles, claims, claimers>>

NoUpdateId(r) == NoJob

\* The --update-id argument the worker passes (line 69).
UpdateIdArg(r) == r

\* Lines 68-72: subprocess.run of the orchestrator. The call may raise before
\* the child exists; otherwise the child starts in main() of orchestrator.py.
Invoke(w) ==
    /\ pc[w] = "run"
    /\ \/ /\ rc' = [rc EXCEPT ![w] = "raised"]
          /\ pc' = [pc EXCEPT ![w] = "except"]
          /\ UNCHANGED <<rpc, rjob>>
       \/ /\ rpc' = [rpc EXCEPT ![w] = "parse"]
          /\ rjob' = [rjob EXCEPT ![w] = UpdateIdArg(Cur(w))]
          /\ pc' = [pc EXCEPT ![w] = "wait"]
          /\ UNCHANGED rc
    /\ UNCHANGED <<outer, persisted, store, records, idx, temp_path, exc, dl, tmpfiles,
                   rdoc, rcode, jsonfiles, claims, claimers>>

\* The runner process is gone, and its memory with it.
Reaped(p) ==
    /\ rpc' = [rpc EXCEPT ![p] = "idle"]
    /\ rjob' = [rjob EXCEPT ![p] = NoJob]
    /\ rdoc' = [rdoc EXCEPT ![p] = "NULL"]
    /\ rcode' = [rcode EXCEPT ![p] = 0]

\* Lines 74-75: the child has exited; a non-zero returncode raises.
Returned(w) ==
    /\ pc[w] = "wait"
    /\ rpc[w] = "exited"
    /\ Reaped(w)
    /\ IF rcode[w] # 0
         THEN /\ rc' = [rc EXCEPT ![w] = "nonzero"]
              /\ pc' = [pc EXCEPT ![w] = "except"]
         ELSE /\ rc' = [rc EXCEPT ![w] = "zero"]
              /\ pc' = [pc EXCEPT ![w] = "complete"]
    /\ UNCHANGED <<outer, persisted, store, records, idx, temp_path, exc, dl, tmpfiles,
                   jsonfiles, claims, claimers>>

\* Line 92: the COMPLETED update, inside the try block.
Complete(w) ==
    /\ pc[w] = "complete"
    /\ \/ /\ pc' = [pc EXCEPT ![w] = "except"]
          /\ UNCHANGED status
       \/ /\ status' = UpdateStatus(status, Cur(w), "COMPLETED")
          /\ pc' = [pc EXCEPT ![w] = "finally"]
    /\ UNCHANGED <<outer, persisted, parsed_data, analysis_payload, records, idx,
                   temp_path, exc, dl, rc, tmpfiles, rvars, jsonfiles, claims, claimers>>

\* Lines 95-97: the except handler writes FAILED; if that update raises, the
\* new exception propagates after the finally block.
Except(w) ==
    /\ pc[w] = "except"
    /\ \/ /\ exc' = [exc EXCEPT ![w] = TRUE]
          /\ UNCHANGED status
       \/ /\ status' = UpdateStatus(status, Cur(w), "FAILED")
          /\ UNCHANGED exc
    /\ pc' = [pc EXCEPT ![w] = "finally"]
    /\ UNCHANGED <<outer, persisted, parsed_data, analysis_payload, records, idx,
                   temp_path, dl, rc, tmpfiles, rvars, jsonfiles, claims, claimers>>

\* Lines 98-100 and the loop back to line 47. Reading an unassigned temp_path
\* raises UnboundLocalError, which leaves process_pending_records like any
\* exception pending from the handler.
Finally(w) ==
    /\ pc[w] = "finally"
    /\ tmpfiles' = IF temp_path[w] # Unbound THEN tmpfiles \ {temp_path[w]}
                   ELSE tmpfiles
    /\ exc' = [exc EXCEPT ![w] = FALSE]
    /\ dl' = [dl EXCEPT ![w] = "none"]
    /\ rc' = [rc EXCEPT ![w] = "none"]
    /\ IF temp_path[w] = Unbound \/ exc[w] \/ idx[w] = Len(records[w])
         THEN Leave(w)
         ELSE /\ pc' = [pc EXCEPT ![w] = "claim"]
              /\ idx' = [idx EXCEPT ![w] = @ + 1]
              /\ UNCHANGED <<records, temp_path>>
    /\ persisted' = [persisted EXCEPT ![w] = "none"]
    /\ UNCHANGED <<outer, store, rvars, jsonfiles, claims, claimers>>

SleepOnce(w) ==
    /\ pc[w] = "sleep"
    /\ pc' = [pc EXCEPT ![w] = "stopped"]
    /\ UNCHANGED <<outer, persisted, store, records, idx, temp_path, exc, dl, rc,
                   tmpfiles, rvars, jsonfiles, claims, claimers>>

\* Lines 106-109: main_loop swallows any exception, sleeps and polls again.
Sleep(w) ==
    /\ pc[w] = "sleep"
    /\ pc' = [pc EXCEPT ![w] = "poll"]
    /\ UNCHANGED <<outer, persisted, store, records, idx, temp_path, exc, dl, rc,
                   tmpfiles, rvars, jsonfiles, claims, claimers>>

\* -------------------------------------------------------- Pipeline Runner
RunnerFrame == UNCHANGED <<outer, wvars, tmpfiles, claims, claimers>>

\* How the runner process ends: sys.exit / an uncaught exception / return.
Exit(p, code) ==
    /\ rpc' = [rpc EXCEPT ![p] = "exited"]
    /\ rcode' = [rcode EXCEPT ![p] = code]

\* The exit code of process_file's early return on a parser error key
\* (lines 37-39, then main returns).
ErrorKeyExitCode == 0

\* orchestrator main() and process_file lines 28-39: argparse accepts only
\* EXCEL and PDF (exit code 2 otherwise); run_tool raises when the parser
\* tool exits non-zero, which ends the process with code 1; a parser output
\* carrying an error key is printed and process_file returns.
Parse(p) ==
    /\ rpc[p] = "parse"
    /\ \E st \in SourceTypes :
         \/ /\ st = "OTHER"
            /\ Exit(p, 2)
            /\ UNCHANGED rdoc
         \/ /\ st = "PDF"
            /\ rdoc' = [rdoc EXCEPT ![p] = "document"]
            /\ rpc' = [rpc EXCEPT ![p] = "mkjson"]
            /\ UNCHANGED rcode
         \/ /\ st = "EXCEL"
            /\ \E o \in ExcelOutcomes :
                 \/ /\ o = "tool_failed"
                    /\ Exit(p, 1)
                    /\ UNCHANGED rdoc
                 \/ /\ o = "error_key"
                    /\ rdoc' = [rdoc EXCEPT ![p] = "error"]
                    /\ Exit(p, ErrorKeyExitCode)
                 \/ /\ o = "document"
                    /\ rdoc' = [rdoc EXCEPT ![p] = "document"]
                    /\ rpc' = [rpc EXCEPT ![p] = "mkjson"]
                    /\ UNCHANGED rcode
    /\ UNCHANGED <<store, rjob, jsonfiles>>
    /\ UNCHANGED persisted
    /\ RunnerFrame

\* A runner that writes the JSON file and goes straight to persistence,
\* without running the analyzer.
MakeJsonThenPersist(p) ==
    /\ rpc[p] = "mkjson"
    /\ \/ /\ Exit(p, 1)
       \/ /\ rpc' = [rpc EXCEPT ![p] = "persist"]
          /\ UNCHANGED rcode
    /\ UNCHANGED <<store, rjob, rdoc, jsonfiles>>
    /\ UNCHANGED persisted
    /\ RunnerFrame

\* Lines 44-46: the intermediate JSON file for the analyzer.
MakeJson(p) ==
    /\ rpc[p] = "mkjson"
    /\ \/ /\ Exit(p, 1)
          /\ UNCHANGED jsonfiles
       \/ /\ jsonfiles' = jsonfiles \cup {p}
          /\ rpc' = [rpc EXCEPT ![p] = "analyze"]
          /\ UNCHANGED rcode
    /\ UNCHANGED <<store, rjob, rdoc>>
    /\ UNCHANGED persisted
    /\ RunnerFrame

\* Lines 48-49: run_tool on the analyzer, then os.remove. When the tool
\* fails run_tool raises and line 49 is not reached.
Analyze(p) ==
    /\ rpc[p] = "analyze"
    /\ \/ /\ Exit(p, 1)
          /\ UNCHANGED jsonfiles
       \/ /\ jsonfiles' = jsonfiles \ {p}
          /\ rpc' = [rpc EXCEPT ![p] = "persist"]
          /\ UNCHANGED rcode
    /\ UNCHANGED <<store, rjob, rdoc>>
    /\ UNCHANGED persisted
    /\ RunnerFrame

\* An update that also writes the status column.
UpdateRecordAndStatus(p) ==
    /\ parsed_data' = [parsed_data EXCEPT ![rjob[p]] =
                          IF status[rjob[p]] = "ABSENT" THEN @ ELSE rdoc[p]]
    /\ analysis_payload' = [analysis_payload EXCEPT ![rjob[p]] =
                          IF status[rjob[p]] = "ABSENT" THEN @ ELSE "analysis"]
    /\ status' = UpdateStatus(status, rjob[p], "COMPLETED")

\* Lines 59-67: update the row named by --update-id; status is not written.
UpdateRecord(p) ==
    /\ parsed_data' = [parsed_data EXCEPT ![rjob[p]] =
                          IF status[rjob[p]] = "ABSENT" THEN @ ELSE rdoc[p]]
    /\ analysis_payload' = [analysis_payload EXCEPT ![rjob[p]] =
                          IF status[rjob[p]] = "ABSENT" THEN @ ELSE "analysis"]
    /\ UNCHANGED status

\* Lines 68-77 and save_parsing_result: insert a new row; the status column is
\* not given, so the row gets whatever the table defaults to.
InsertRecord(p) ==
    \E r \in Ids, s \in Statuses :
        /\ status[r] = "ABSENT"
        /\ status' = [status EXCEPT ![r] = s]
        /\ parsed_data' = [parsed_data EXCEPT ![r] = rdoc[p]]
        /\ analysis_payload' = [analysis_payload EXCEPT ![r] = "analysis"]

\* Lines 55-83: persistence inside try/except Exception; a failure of the
\* client construction, the update or the insert is printed and swallowed.
Persist(p) ==
    /\ rpc[p] = "persist"
    /\ \/ /\ UNCHANGED store
          /\ persisted' = [persisted EXCEPT ![p] = "lost"]
       \/ /\ IF rjob[p] # NoJob THEN UpdateRecord(p) ELSE InsertRecord(p)
          /\ persisted' = [persisted EXCEPT ![p] = "saved"]
    /\ Exit(p, 0)
    /\ UNCHANGED <<rjob, rdoc, jsonfiles>>
    /\ RunnerFrame

\* A manual run of orchestrator.py without --update-id.
CliStart ==
    /\ rpc[Cli] = "idle"
    /\ \E r \in Ids : status[r] = "ABSENT"
    /\ rpc' = [rpc EXCEPT ![Cli] = "parse"]
    /\ rjob' = [rjob EXCEPT ![Cli] = NoJob]
    /\ UNCHANGED <<store, rdoc, rcode, jsonfiles, persisted>>
    /\ RunnerFrame

CliExit ==
    /\ rpc[Cli] = "exited"
    /\ Reaped(Cli)
    /\ persisted' = [persisted EXCEPT ![Cli] = "none"]
    /\ UNCHANGED <<store, jsonfiles>>
    /\ RunnerFrame

\* ------------------------------------------------------------------- Next
DoFetch == \E w \in running : Fetch(w)
DoClaim == \E w \in running : Claim(w)
DoMakeTemp == \E w \in running : MakeTemp(w)
DoDownload == \E w \in running : Download(w)
DoInvoke == \E w \in running : Invoke(w)
DoReturned == \E w \in running : Returned(w)
DoComplete == \E w \in running : Complete(w)
DoExcept == \E w \in running : Except(w)
DoFinally == \E w \in running : Finally(w)
DoSleep == \E w \in running : Sleep(w)
DoParse == \E p \in Runners : Parse(p)
DoMakeJson == \E p \in Runners : MakeJson(p)
DoAnalyze == \E p \in Runners : Analyze(p)
DoPersist == \E p \in Runners : Persist(p)

WorkerNext ==
    \/ DoFetch \/ DoClaim \/ DoMakeTemp \/ DoDownload \/ DoInvoke
    \/ DoReturned \/ DoComplete \/ DoExcept \/ DoFinally \/ DoSleep

RunnerNext == DoParse \/ DoMakeJson \/ DoAnalyze \/ DoPersist

Next ==
    \/ DoFetch \/ DoClaim \/ DoMakeTemp \/ DoDownload \/ DoInvoke
    \/ DoReturned \/ DoComplete \/ DoExcept \/ DoFinally \/ DoSleep
    \/ DoParse \/ DoMakeJson \/ DoAnalyze \/ DoPersist
    \/ CliStart \/ CliExit

Spec == Init /\ [][Next]_vars

\* Two worker instances started against the same store, which holds at most
\* RaceRecords rows.
InitTwo ==
    /\ running = AllWorkers
    /\ InitStore
    /\ \A r \in Ids : r > RaceRecords => status[r] = "ABSENT"
    /\ AnalyzerIdle
    /\ ParserIdle
    /\ InitProcs

\* The steps of the workers and of the runners they start; no manual run.
NextWorkers ==
    \/ DoFetch \/ DoClaim \/ DoMakeTemp \/ DoDownload \/ DoInvoke
    \/ DoReturned \/ DoComplete \/ DoExcept \/ DoFinally \/ DoSleep
    \/ DoParse \/ DoMakeJson \/ DoAnalyze \/ DoPersist

SpecTwo == InitTwo /\ [][NextWorkers]_vars

\* The worker and runner processes keep taking steps (a blocking loop whose
\* external calls return).
FairSpec == Spec /\ WF_vars(WorkerNext) /\ WF_vars(RunnerNext)

TypeOK ==
    /\ status \in [Ids -> Statuses \cup {"ABSENT"}]
    /\ pc \in [AllWorkers -> {"poll", "claim", "mktemp", "download", "run", "wait",
                              "complete", "except", "finally", "sleep"}]
    /\ rpc \in [Runners -> {"idle", "parse", "mkjson", "analyze", "persist", "exited"}]
    /\ \A w \in AllWorkers : pc[w] \notin {"poll", "sleep"} =>
          idx[w] \in 1..Len(records[w])

\* One step of worker w, and one step of the runner process p.
WorkerStep(w) ==
    /\ w \in running
    /\ \/ Fetch(w) \/ Claim(w) \/ MakeTemp(w) \/ Download(w) \/ Invoke(w)
       \/ Returned(w) \/ Complete(w) \/ Except(w) \/ Finally(w) \/ Sleep(w)

RunnerStep(p) == Parse(p) \/ MakeJson(p) \/ Analyze(p) \/ Persist(p)

\* A PENDING query of worker w that returns.
PollOk(w) == w \in running /\ FetchOk(w)

\* One worker and the runners it starts: every process keeps taking steps,
\* and the PENDING query of a worker that polls again and again does not
\* raise every time.
FairLoop ==
    /\ Init /\ [][NextWorkers]_vars
    /\ \A w \in AllWorkers : WF_vars(WorkerStep(w))
    /\ \A w \in AllWorkers : SF_vars(PollOk(w))
    /\ \A p \in Runners : WF_vars(RunnerStep(p))

\* ------------------------------------------------ tool_analyze_finances
\* Strings are sequences of one-character strings. Amounts are the floats
\* of the code restricted to whole numbers; percentages rounded to two
\* decimals are held as integer hundredths.
MaxItems == 3

\* str.lower() on the letters A-Z.
LowerOf ==
    ("A" :> "a") @@ ("B" :> "b") @@ ("C" :> "c") @@ ("D" :> "d") @@
    ("E" :> "e") @@ ("F" :> "f") @@ ("G" :> "g") @@ ("H" :> "h") @@
    ("I" :> "i") @@ ("J" :> "j") @@ ("K" :> "k") @@ ("L" :> "l") @@
    ("M" :> "m") @@ ("N" :> "n") @@ ("O" :> "o") @@ ("P" :> "p") @@
    ("Q" :> "q") @@ ("R" :> "r") @@ ("S" :> "s") @@ ("T" :> "t") @@
    ("U" :> "u") @@ ("V" :> "v") @@ ("W" :> "w") @@ ("X" :> "x") @@
    ("Y" :> "y") @@ ("Z" :> "z")

LowerChar(c) == IF c \in DOMAIN LowerOf THEN LowerOf[c] ELSE c
Lower(str) == [i \in 1..Len(str) |-> LowerChar(str[i])]

\* The Python test `k in str`.
IsSubstring(k, str) ==
    \E i \in 0..(Len(str) - Len(k)) : SubSeq(str, i + 1, i + Len(k)) = k

KwIngreso == <<"i", "n", "g", "r", "e", "s", "o">>
KwVenta == <<"v", "e", "n", "t", "a">>
KwCosto == <<"c", "o", "s", "t", "o">>
KwGasto == <<"g", "a", "s", "t", "o">>
KwAdmin == <<"a", "d", "m", "i", "n">>

Signed(x) == x

Abs(x) == IF x < 0 THEN 0 - x ELSE x

\* round(num/den, 0) for den > 0, ties to the even neighbour.
RoundHalfEven(num, den) ==
    LET q == num \div den
        r == num % den
    IN  IF 2 * r > den THEN q + 1
        ELSE IF 2 * r < den THEN q
        ELSE IF q % 2 = 0 THEN q ELSE q + 1

\* round(100 * num / den, 2) in hundredths. The whole hundreds of the
\* quotient are split off first, which keeps the products small; they are
\* even, so the tie rule is unaffected.
RoundPct(num, den) ==
    LET q == (100 * num) \div den
        r == (100 * num) % den
    IN  100 * q + RoundHalfEven(100 * r, den)

\* The items the input documents are built from.
ItemPool ==
    { [category |-> <<"v", "e", "n", "t", "a">>, amount |-> 1000],
      [category |-> <<"c", "o", "s", "t", "o">>, amount |-> -400],
      [category |-> <<"g", "a", "s", "t", "o", " ", "a", "d", "m", "i", "n">>, amount |-> -700],
      [category |-> <<"v", "e", "n", "t", "a">>, amount |-> 10000],
      [category |-> <<"c", "o", "s", "t", "o">>, amount |-> 7000],
      [category |-> <<"c", "o", "s", "t", "o">>, amount |-> 7001],
      [category |-> <<"g", "a", "s", "t", "o">>, amount |-> 500],
      [category |-> <<"I", "n", "g", "r", "e", "s", "o">>, amount |-> 32],
      [category |-> <<"c", "o", "s", "t", "o">>, amount |-> 1],
      [category |-> <<"C", "o", "s", "t", "o", " ", "d", "e", " ", "V", "e", "n", "t", "a">>, amount |-> -300],
      [category |-> <<"o", "t", "r", "o", "s">>, amount |-> 50],
      [category |-> <<"v", "e", "n", "t", "a">>, amount |-> -1000] }

RECURSIVE SeqsUpTo(_, _)
SeqsUpTo(S, n) ==
    IF n = 0 THEN {<<>>}
    ELSE LET shorter == SeqsUpTo(S, n - 1)
         IN  shorter \cup {Append(q, x) : q \in shorter, x \in S}

\* Lines 13-29: the aggregation loop of calculate_kpis, one item at a time.
ZeroTotals == [total_sales |-> 0, cost_of_sales |-> 0, fixed_costs |-> 0]

\* Three independent tests instead of the if/elif chain.
AddItemEveryMatch(acc, item) ==
    LET cat == Lower(item.category)
        amt == item.amount
        a == IF IsSubstring(KwIngreso, cat) \/ IsSubstring(KwVenta, cat)
               THEN [acc EXCEPT !.total_sales = @ + amt] ELSE acc
        b == IF IsSubstring(KwCosto, cat)
               THEN [a EXCEPT !.cost_of_sales = @ + Abs(amt)] ELSE a
    IN  IF IsSubstring(KwGasto, cat) \/ IsSubstring(KwAdmin, cat)
          THEN [b EXCEPT !.fixed_costs = @ + Abs(amt)] ELSE b

AddItem(acc, item) ==
    LET cat == Lower(item.category)
        amt == item.amount
    IN  IF IsSubstring(KwIngreso, cat) \/ IsSubstring(KwVenta, cat)
          THEN [acc EXCEPT !.total_sales = @ + amt]
        ELSE IF IsSubstring(KwCosto, cat)
          THEN [acc EXCEPT !.cost_of_sales = @ + Abs(amt)]
        ELSE IF IsSubstring(KwGasto, cat) \/ IsSubstring(KwAdmin, cat)
          THEN [acc EXCEPT !.fixed_costs = @ + Abs(amt)]
        ELSE acc

RECURSIVE Aggregate(_, _)
Aggregate(its, acc) ==
    IF its = <<>> THEN acc ELSE Aggregate(Tail(its), AddItem(acc, Head(its)))

\* Lines 5-50.
calculate_kpis(its) ==
    LET t == Aggregate(its, ZeroTotals)
        sales == t.total_sales
        net == sales - t.cost_of_sales - t.fixed_costs
    IN  [total_sales |-> sales,
         cost_of_sales |-> t.cost_of_sales,
         fixed_costs |-> t.fixed_costs,
         net_income |-> net,
         gross_margin_pct |-> IF sales > 0
                                THEN RoundPct(sales - t.cost_of_sales, sales)
                                ELSE 0,
         net_margin_pct |-> IF sales # 0
                              THEN RoundPct(net * (IF sales < 0 THEN 0 - 1 ELSE 1),
                                            Abs(sales))
                              ELSE 0]

LowMarginInclusive(m) == m <= 3000

\* Line 73: margin < 30, the margin in hundredths.
LowMargin(m) == m < 3000

\* Line 62: sales > 0 and (fixed / sales) > 0.5.
HighFixed(k) == k.total_sales > 0 /\ 2 * k.fixed_costs > k.total_sales

rules_short_circuit(k) ==
    IF HighFixed(k) THEN <<"HIGH_FIXED_COSTS">>
    ELSE IF LowMargin(k.gross_margin_pct) THEN <<"LOW_GROSS_MARGIN">>
    ELSE <<>>

\* Lines 52-82: the rule ids of the rules appended, in order.
generate_optimization_rules(k) ==
    (IF HighFixed(k) THEN <<"HIGH_FIXED_COSTS">> ELSE <<>>)
        \o (IF LowMargin(k.gross_margin_pct) THEN <<"LOW_GROSS_MARGIN">> ELSE <<>>)

\* One run of analyze() (lines 84-95) on a document; nothing else runs.
InitAnalyzer ==
    /\ running = {}
    /\ status = [r \in Ids |-> "ABSENT"]
    /\ parsed_data = [r \in Ids |-> "NULL"]
    /\ analysis_payload = [r \in Ids |-> "NULL"]
    /\ InitProcs
    /\ ParserIdle
    /\ items \in SeqsUpTo(ItemPool, MaxItems)
    /\ kpis = NoKpis
    /\ improvements = <<>>
    /\ apc = "kpis"

\* Line 89.
CalculateKpis ==
    /\ apc = "kpis"
    /\ kpis' = calculate_kpis(items)
    /\ apc' = "rules"
    /\ UNCHANGED <<items, improvements, procs, nvars>>

\* Lines 90-95.
GenerateRules ==
    /\ apc = "rules"
    /\ improvements' = generate_optimization_rules(kpis)
    /\ apc' = "done"
    /\ UNCHANGED <<items, kpis, procs, nvars>>

NextAnalyzer == CalculateKpis \/ GenerateRules

SpecAnalyzer == InitAnalyzer /\ [][NextAnalyzer]_vars

\* ----------------------------------------------------- tool_parse_excel
\* A cell of the table is NaN, a native number, a datetime or text. Numbers
\* are held in hundredths; a date is <<year, month, day>>, the value that
\* strftime('%Y-%m-%d') prints.
MaxRows == 3

\* df.head(10), line 17.
HeadRows == 10

NoDate == <<0, 0, 0>>
NaN == [k |-> "nan", n |-> 0, s |-> <<>>, d |-> NoDate]
Num(h) == [k |-> "num", n |-> h, s |-> <<>>, d |-> NoDate]
Ts(date) == [k |-> "ts", n |-> 0, s |-> <<>>, d |-> date]
Str(chars) == [k |-> "str", n |-> 0, s |-> chars, d |-> NoDate]

\* datetime.now(): the day the tool runs.
Today == <<2026, 11, 1>>

MinOf(S) == CHOOSE x \in S : \A y \in S : x <= y
MaxOf(S) == CHOOSE x \in S : \A y \in S : x >= y

Digits == <<"0", "1", "2", "3", "4", "5", "6", "7", "8", "9">>
IsDigitChar(c) == \E i \in 1..10 : Digits[i] = c
DigitVal(c) == (CHOOSE i \in 1..10 : Digits[i] = c) - 1

\* str.isdigit()
IsDigitStr(str) == str # <<>> /\ \A i \in 1..Len(str) : IsDigitChar(str[i])

RECURSIVE ToNat(_)
ToNat(str) ==
    IF str = <<>> THEN 0
    ELSE 10 * ToNat(SubSeq(str, 1, Len(str) - 1)) + DigitVal(str[Len(str)])

RECURSIVE NatToChars(_)
NatToChars(n) ==
    IF n < 10 THEN <<Digits[n + 1]>>
    ELSE NatToChars(n \div 10) \o <<Digits[(n % 10) + 1]>>

\* '%02d' and '%04d'.
RECURSIVE Pad(_, _)
Pad(chars, width) == IF Len(chars) >= width THEN chars ELSE Pad(<<"0">> \o chars, width)

\* str.strip()
Strip(str) ==
    LET I == {i \in 1..Len(str) : str[i] # " "}
    IN  IF I = {} THEN <<>> ELSE SubSeq(str, MinOf(I), MaxOf(I))

\* str.replace(c, '')
Remove(str, c) ==
    LET Keep(x) == x # c IN SelectSeq(str, Keep)

\* str.replace(c, '', 1)
RemoveFirst(str, c) ==
    LET I == {i \in 1..Len(str) : str[i] = c}
    IN  IF I = {} THEN str
        ELSE SubSeq(str, 1, MinOf(I) - 1) \o SubSeq(str, MinOf(I) + 1, Len(str))

\* str.replace(a, b) for single characters.
ReplaceChar(str, a, b) == [i \in 1..Len(str) |-> IF str[i] = a THEN b ELSE str[i]]

\* Lines 63 and 156: val.replace('.', '').replace(',', '.')
Cleanup(str) == ReplaceChar(Remove(str, "."), ",", ".")

RECURSIVE SplitAt(_, _)
SplitAt(str, sep) ==
    LET I == {i \in 1..Len(str) : str[i] = sep}
    IN  IF I = {} THEN <<str>>
        ELSE <<SubSeq(str, 1, MinOf(I) - 1)>>
                 \o SplitAt(SubSeq(str, MinOf(I) + 1, Len(str)), sep)

\* float(str) for plain decimal text: optional blanks, optional sign, digits
\* with at most one point; up to two decimals are kept. Exponents, inf and
\* nan are not modelled.
FloatOf(str) ==
    LET t == Strip(str)
        signed == t # <<>> /\ t[1] \in {"-", "+"}
        body == IF signed THEN Tail(t) ELSE t
        parts == SplitAt(body, ".")
        whole == parts[1]
        frac == IF Len(parts) = 2 THEN parts[2] ELSE <<>>
        ok == /\ Len(parts) <= 2
              /\ whole = <<>> \/ IsDigitStr(whole)
              /\ frac = <<>> \/ IsDigitStr(frac)
              /\ whole # <<>> \/ frac # <<>>
        cents == IF frac = <<>> THEN 0
                 ELSE IF Len(frac) = 1 THEN 10 * ToNat(frac)
                 ELSE ToNat(SubSeq(frac, 1, 2))
        mag == 100 * ToNat(whole) + cents
    IN  IF ok THEN [ok |-> TRUE, v |-> IF signed /\ t[1] = "-" THEN 0 - mag ELSE mag]
        ELSE [ok |-> FALSE, v |-> 0]

\* repr of a float held in hundredths: 1500.5, 100.0, -3.25.
FloatText(h) ==
    LET mag == IF h < 0 THEN 0 - h ELSE h
        cents == mag % 100
    IN  (IF h < 0 THEN <<"-">> ELSE <<>>)
            \o NatToChars(mag \div 100) \o <<".">>
            \o (IF cents % 10 = 0 THEN <<Digits[(cents \div 10) + 1]>>
                ELSE Pad(NatToChars(cents), 2))

DateText(date) ==
    Pad(NatToChars(date[1]), 4) \o <<"-">> \o Pad(NatToChars(date[2]), 2)
        \o <<"-">> \o Pad(NatToChars(date[3]), 2)

\* str(val) for a cell.
StrOf(cell) ==
    IF cell.k = "str" THEN cell.s
    ELSE IF cell.k = "nan" THEN <<"n", "a", "n">>
    ELSE IF cell.k = "num" THEN FloatText(cell.n)
    ELSE DateText(cell.d) \o <<" ", "0", "0", ":", "0", "0", ":", "0", "0">>

\* ------------------------------------------------------ datetime.strptime
MonthAbbr ==
    << <<"j", "a", "n">>, <<"f", "e", "b">>, <<"m", "a", "r">>,
       <<"a", "p", "r">>, <<"m", "a", "y">>, <<"j", "u", "n">>,
       <<"j", "u", "l">>, <<"a", "u", "g">>, <<"s", "e", "p">>,
       <<"o", "c", "t">>, <<"n", "o", "v">>, <<"d", "e", "c">> >>

\* %b, matched without regard to case; 0 when the text is no month.
MonthOf(str) ==
    LET I == {i \in 1..12 : MonthAbbr[i] = Lower(str)}
    IN  IF I = {} THEN 0 ELSE CHOOSE i \in I : TRUE

IsLeap(y) == (y % 4 = 0 /\ y % 100 # 0) \/ y % 400 = 0

DaysIn(m, y) ==
    IF m = 2 THEN (IF IsLeap(y) THEN 29 ELSE 28)
    ELSE IF m \in {4, 6, 9, 11} THEN 30 ELSE 31

ValidDate(y, m, d) == y >= 1 /\ m \in 1..12 /\ d \in 1..DaysIn(m, y)

\* %d and %m take one or two digits, %Y exactly four.
ShortField(f) == IsDigitStr(f) /\ Len(f) \in {1, 2}
YearField(f) == IsDigitStr(f) /\ Len(f) = 4

MakeDate(y, m, d) == IF ValidDate(y, m, d) THEN <<y, m, d>> ELSE NoDate

\* The four formats of line 29, in order.
Formats == <<"%d/%b/%Y", "%d/%m/%Y", "%b/%Y", "%Y-%m-%d">>

\* datetime.strptime(str, fmt); NoDate when it raises.
Strptime(str, fmt) ==
    LET f == SplitAt(str, IF fmt = "%Y-%m-%d" THEN "-" ELSE "/")
    IN  IF fmt = "%d/%b/%Y" THEN
            IF Len(f) = 3 /\ ShortField(f[1]) /\ MonthOf(f[2]) # 0 /\ YearField(f[3])
              THEN MakeDate(ToNat(f[3]), MonthOf(f[2]), ToNat(f[1])) ELSE NoDate
        ELSE IF fmt = "%d/%m/%Y" THEN
            IF Len(f) = 3 /\ ShortField(f[1]) /\ ShortField(f[2]) /\ YearField(f[3])
              THEN MakeDate(ToNat(f[3]), ToNat(f[2]), ToNat(f[1])) ELSE NoDate
        ELSE IF fmt = "%b/%Y" THEN
            IF Len(f) = 2 /\ MonthOf(f[1]) # 0 /\ YearField(f[2])
              THEN MakeDate(ToNat(f[2]), MonthOf(f[1]), 1) ELSE NoDate
        ELSE
            IF Len(f) = 3 /\ YearField(f[1]) /\ ShortField(f[2]) /\ ShortField(f[3])
              THEN MakeDate(ToNat(f[1]), ToNat(f[2]), ToNat(f[3])) ELSE NoDate

\* Lines 19-36: the date a cell is taken for, NoDate when none.
ParsedDate(cell) ==
    IF cell.k = "ts" THEN cell.d
    ELSE LET val_str == Strip(StrOf(cell))
             F == {i \in 1..Len(Formats) : Strptime(val_str, Formats[i]) # NoDate}
         IN  IF F = {} THEN NoDate ELSE Strptime(val_str, Formats[MinOf(F)])

\* ------------------------------------------------- normalize_dataframe
\* What a parse returns: None, a document, or the error dictionary.
None == [kind |-> "none", financial_period |-> 0, currency |-> "", items |-> <<>>,
         error |-> ""]
Document(its) ==
    [kind |-> "document", financial_period |-> Today[1], currency |-> "CLP",
     items |-> its, error |-> ""]
ErrorDict(msg) ==
    [kind |-> "error", financial_period |-> 0, currency |-> "", items |-> <<>>,
     error |-> msg]

\* A line item; its amount is a float: nan tells NaN from the hundredths.
Item(date, description, category, amount, nan) ==
    [date |-> date, description |-> description, category |-> category,
     amount |-> amount, nan |-> nan]

TxtUnknown == <<"U", "n", "k", "n", "o", "w", "n">>
TxtGeneral == <<"G", "e", "n", "e", "r", "a", "l">>
\* A category that names sales.
TxtVentas == <<"V", "e", "n", "t", "a", "s">>
TxtStatement == <<"F", "i", "n", "a", "n", "c", "i", "a", "l", " ", "S", "t", "a", "t", "e", "m", "e", "n", "t">>

\* Lines 14-39: the date found in each cell of the first rows; the columns
\* holding a date, with the row of the first date found and the date found
\* last.
HeadOf(rws) == 1..(IF Len(rws) < HeadRows THEN Len(rws) ELSE HeadRows)
HeadDates(rws, width) ==
    [r \in HeadOf(rws) |-> [c \in 1..width |-> ParsedDate(rws[r][c])]]
DateRows(found, c) == {r \in DOMAIN found : found[r][c] # NoDate}
DateCols(found, width) == {c \in 1..width : DateRows(found, c) # {}}
date_map(found, c) == found[MaxOf(DateRows(found, c))][c]

\* dict order: a key stays where it was first inserted (row by row, then by
\* column).
RECURSIVE InsertionOrder(_, _, _)
InsertionOrder(found, width, S) ==
    IF S = {} THEN <<>>
    ELSE LET Key(c) == MinOf(DateRows(found, c)) * (width + 1) + c
             c == CHOOSE x \in S : \A y \in S : Key(x) <= Key(y)
         IN  <<c>> \o InsertionOrder(found, width, S \ {c})

\* Lines 56-67: the amount read from a cell under a date column, if any.
MatrixAmount(cell) ==
    IF cell.k = "num" THEN [ok |-> TRUE, v |-> cell.n]
    ELSE IF cell.k = "str" THEN
        LET val == Cleanup(cell.s)
        IN  IF IsDigitStr(RemoveFirst(val, ".")) THEN FloatOf(val)
            ELSE [ok |-> FALSE, v |-> 0]
    ELSE [ok |-> FALSE, v |-> 0]

\* The leftmost such text instead of the nearest.
LookLeftmost(row, c) ==
    LET S == {j \in 1..(c - 1) : row[j].k = "str" /\ Len(Strip(row[j].s)) > 3}
    IN  IF S = {} THEN TxtUnknown ELSE Strip(row[MinOf(S)].s)

\* Lines 71-80: the nearest text of more than 3 characters to the left.
LookLeft(row, c) ==
    LET S == {j \in 1..(c - 1) : row[j].k = "str" /\ Len(Strip(row[j].s)) > 3}
    IN  IF S = {} THEN TxtUnknown ELSE Strip(row[MaxOf(S)].s)

\* Lines 54-91 for one row: the items of the date columns in cols.
RECURSIVE RowItems(_, _, _, _)
RowItems(rws, r, cols, found) ==
    IF cols = <<>> THEN <<>>
    ELSE LET c == Head(cols)
             a == MatrixAmount(rws[r][c])
             here == IF a.ok /\ a.v # 0
                       THEN <<Item(date_map(found, c), LookLeft(rws[r], c),
                                   TxtStatement, a.v, FALSE)>>
                       ELSE <<>>
         IN  here \o RowItems(rws, r, Tail(cols), found)

\* start_row = 1 (line 48): the first data row is never read.
StartRow == 2

RECURSIVE MatrixItems(_, _, _, _)
MatrixItems(rws, r, cols, found) ==
    IF r > Len(rws) THEN <<>>
    ELSE RowItems(rws, r, cols, found) \o MatrixItems(rws, r + 1, cols, found)

\* Lines 7-97.
parse_financial_matrix(rws, width) ==
    LET found == HeadDates(rws, width)
        cols == DateCols(found, width)
    IN  IF cols = {} THEN None
        ELSE Document(MatrixItems(rws, StartRow,
                                  InsertionOrder(found, width, cols), found))

MatrixFound(m) == m.kind # "none"

\* Line 106: matrix_result and len(matrix_result['items']) > 0.
MatrixAccepted(m) == m.kind # "none" /\ Len(m.items) > 0

\* Line 110: str(c).lower().strip()
CleanName(c) == Strip(Lower(c))

DateWords == {<<"f", "e", "c", "h", "a">>, <<"d", "a", "t", "e">>}
CategoryWords == {<<"c", "a", "t">>, <<"r", "u", "b", "r", "o">>}
DescriptionWords == {<<"d", "e", "s", "c">>, <<"d", "e", "t", "a", "l", "l", "e">>, <<"i", "t", "e", "m">>}
AmountWords == {<<"m", "o", "n", "t", "o">>, <<"v", "a", "l", "o", "r">>, <<"a", "m", "o", "u", "n", "t">>, <<"n", "e", "t", "o">>}
Roles == {"date", "category", "description", "amount"}

\* Lines 117-124: the role one column name is given.
RoleOf(col) ==
    IF \E x \in DateWords : IsSubstring(x, col) THEN "date"
    ELSE IF \E x \in CategoryWords : IsSubstring(x, col) THEN "category"
    ELSE IF \E x \in DescriptionWords : IsSubstring(x, col) THEN "description"
    ELSE IF \E x \in AmountWords : IsSubstring(x, col) THEN "amount"
    ELSE "none"

\* Lines 114-124: column_map after the loop, as column positions (0: role not
\* in the map). Every matching column assigns its role again.
column_map(cols) ==
    [role \in Roles |->
        LET S == {i \in 1..Len(cols) : RoleOf(cols[i]) = role}
        IN  IF S = {} THEN 0 ELSE MaxOf(S)]

AllMapped(cmap) == \A role \in Roles : cmap[role] # 0

\* Line 127.
AmountMapped(cmap) == cmap["amount"] # 0

\* pd.to_datetime on text: the strptime formats, except that a numeric
\* a/b/year is read month first when that is a date. Other text (digits only
\* included) is taken as not parseable.
PandasDate(str) ==
    LET t == Strip(str)
        f == SplitAt(t, "/")
        slashed == Len(f) = 3 /\ ShortField(f[1]) /\ ShortField(f[2]) /\ YearField(f[3])
    IN  IF slashed /\ ValidDate(ToNat(f[3]), ToNat(f[1]), ToNat(f[2]))
          THEN <<ToNat(f[3]), ToNat(f[1]), ToNat(f[2])>>
        ELSE ParsedDate(Str(t))

\* Lines 135-142: the date of a row; NaT and anything not parseable give
\* today's date, a number is nanoseconds since 1970.
FlatDate(cell) ==
    IF cell.k = "ts" THEN cell.d
    ELSE IF cell.k = "num" THEN (IF cell.n < 0 THEN <<1969, 12, 31>> ELSE <<1970, 1, 1>>)
    ELSE IF cell.k = "nan" THEN Today
    ELSE IF PandasDate(cell.s) = NoDate THEN Today ELSE PandasDate(cell.s)

\* Lines 151-159: float(val) after the cleanup of text, 0.0 when it raises.
FlatAmount(cell) ==
    IF cell.k = "num" THEN [nan |-> FALSE, v |-> cell.n]
    ELSE IF cell.k = "nan" THEN [nan |-> TRUE, v |-> 0]
    ELSE IF cell.k = "str" THEN [nan |-> FALSE, v |-> FloatOf(Cleanup(cell.s)).v]
    ELSE [nan |-> FALSE, v |-> 0]

\* Lines 132-161 for one row.
FlatItem(row, cmap) ==
    LET a == FlatAmount(row[cmap["amount"]])
    IN  Item(IF cmap["date"] # 0 THEN FlatDate(row[cmap["date"]]) ELSE Today,
             IF cmap["description"] # 0 THEN StrOf(row[cmap["description"]])
                                       ELSE TxtUnknown,
             IF cmap["category"] # 0 THEN StrOf(row[cmap["category"]]) ELSE TxtGeneral,
             a.v, a.nan)

\* Lines 109-167, on the cleaned column names.
flat_parse(cols, rws) ==
    LET cmap == column_map(cols)
    IN  IF ~AmountMapped(cmap) THEN ErrorDict("Could not identify Amount column")
        ELSE Document([r \in 1..Len(rws) |-> FlatItem(rws[r], cmap)])

CleanNames(cols) == [i \in 1..Len(cols) |-> CleanName(cols[i])]

Reversed(seq) == [i \in 1..Len(seq) |-> seq[Len(seq) + 1 - i]]

normalize_reordering(cols, rws) ==
    LET matrix_result == parse_financial_matrix(rws, Len(cols))
    IN  IF MatrixAccepted(matrix_result)
          THEN [returned |-> matrix_result, columns |-> cols]
          ELSE [returned |-> flat_parse(CleanNames(cols), rws),
                columns |-> Reversed(CleanNames(cols))]

\* Lines 99-167: what normalize_dataframe returns, and df.columns after it.
normalize_dataframe(cols, rws) ==
    LET matrix_result == parse_financial_matrix(rws, Len(cols))
    IN  IF MatrixAccepted(matrix_result)
          THEN [returned |-> matrix_result, columns |-> cols]
          ELSE [returned |-> flat_parse(CleanNames(cols), rws),
                columns |-> CleanNames(cols)]

\* The tables the parser is run on: three columns, names that stay distinct
\* when cleaned.
HeaderPool ==
    { <<<<"F", "e", "c", "h", "a">>, <<"D", "e", "s", "c", "r", "i", "p", "c", "i", "o", "n">>, <<"M", "o", "n", "t", "o">>>>,
      <<<<"D", "e", "t", "a", "l", "l", "e">>, <<"m", "o", "n", "t", "o">>, <<"v", "a", "l", "o", "r", " ", "n", "e", "t", "o">>>>,
      <<<<"C", "u", "e", "n", "t", "a">>, <<"3", "1", "/", "O", "c", "t", "/", "2", "0", "2", "5">>, <<"N", "o", "t", "a", "s">>>>,
      <<<<"R", "u", "b", "r", "o">>, <<" ", "I", "t", "e", "m", " ">>, <<"A", "m", "o", "u", "n", "t">>>>,
      <<<<"f", "e", "c", "h", "a">>, <<"d", "a", "t", "e">>, <<"m", "o", "n", "t", "o">>>>,
      <<<<"C", "u", "e", "n", "t", "a">>, <<"S", "a", "l", "d", "o">>, <<"V", "a", "l", "o", "r">>>> }

RowPool ==
    { <<Str(<<"P", "e", "r", "i", "o", "d", "o">>),
         Str(<<"3", "1", "/", "O", "c", "t", "/", "2", "0", "2", "5">>),
         Str(<<"O", "c", "t", "/", "2", "0", "2", "5">>)>>,
      <<Str(<<"V", "e", "n", "t", "a", "s", " ", "n", "e", "t", "a", "s">>),
         Num(100000),
         Str(<<"1", ".", "5", "0", "0", ",", "5", "0">>)>>,
      <<Str(<<"2", "0", "2", "5", "-", "0", "1", "-", "1", "5">>),
         Str(<<"A", "r", "r", "i", "e", "n", "d", "o", " ", "o", "f", "i", "c", "i",
               "n", "a">>),
         Str(<<"-", "2", "0", "0">>)>>,
      <<Ts(<<2025, 3, 1>>),
         Str(<<"a", "b", "c">>),
         Num(0)>>,
      <<NaN,
         Str(<<" ", " ", "C", "o", "s", "t", "o", " ", "d", "e", " ", "v", "e", "n",
               "t", "a", " ", " ">>),
         Num(0 - 40000)>>,
      <<Num(4500000),
         Str(<<"G", "a", "s", "t", "o", " ", "a", "d", "m", "i", "n">>),
         Str(<<"n", "/", "a">>)>>,
      <<Str(<<"c", "o", "s", "t", "o">>),
         Str(<<"1", ".", "0", "0", "0">>),
         Str(<<"1", "5", "/", "0", "1", "/", "2", "0", "2", "5">>)>>,
      <<Str(<<"A", "c", "t", "i", "v", "o", "s">>),
         Str(<<"C", "a", "j", "a">>),
         Num(250000)>> }

\* One run of the tool on a table (lines 174-180); nothing else runs.
InitParser ==
    /\ running = {}
    /\ status = [r \in Ids |-> "ABSENT"]
    /\ parsed_data = [r \in Ids |-> "NULL"]
    /\ analysis_payload = [r \in Ids |-> "NULL"]
    /\ InitProcs
    /\ AnalyzerIdle
    /\ columns \in HeaderPool
    /\ rows \in SeqsUpTo(RowPool, MaxRows)
    /\ result = NoResult
    /\ again = NoResult
    /\ npc = "read"

\* One call of normalize_dataframe on the frame (lines 99-167): the first
\* call is the tool's own (line 180) and fills result, a call made from
\* "done" is a second call on the same df object, whose columns the first
\* call may have reassigned (line 110), and fills again.
NormalizeCall(from) ==
    /\ npc = from
    /\ LET call == normalize_dataframe(columns, rows)
       IN  /\ IF from = "read"
                THEN result' = call.returned /\ again' = again
                ELSE again' = call.returned /\ result' = result
           /\ columns' = call.columns
    /\ npc' = (IF from = "read" THEN "done" ELSE "twice")
    /\ UNCHANGED <<rows, procs, avars>>

\* Line 180.
Normalize == NormalizeCall("read")

NormalizeAgain == NormalizeCall("done")

NextParser == \E from \in {"read", "done"} : NormalizeCall(from)

SpecParser == InitParser /\ [][NextParser]_vars

\* The analyzer tool run on the document the parser printed (orchestrator
\* lines 35-48, analyze lines 84-95). A NaN amount makes every sum it enters
\* NaN; such documents are not followed.
AnalyzeDocument ==
    /\ npc = "done"
    /\ apc = "idle"
    /\ result.kind = "document"
    /\ \A i \in 1..Len(result.items) : ~result.items[i].nan
    /\ items' = result.items
    /\ kpis' = calculate_kpis(result.items)
    /\ improvements' = generate_optimization_rules(calculate_kpis(result.items))
    /\ apc' = "done"
    /\ UNCHANGED <<procs, nvars>>

NextPipeline == Normalize \/ AnalyzeDocument

\* The parser tool followed by the analyzer tool on its output.
SpecPipeline == InitParser /\ [][NextPipeline]_vars

\* ------------------------------------------------------------------ claims
Terminal == {"COMPLETED", "FAILED"}
Working == {"mktemp", "download", "run", "wait", "complete", "except", "finally"}
AllowedMoves == {<<"PENDING", "PROCESSING">>, <<"PROCESSING", "COMPLETED">>,
                 <<"PROCESSING", "FAILED">>}

\* C1: with one worker, every change of an existing record's status is
\* PENDING->PROCESSING, PROCESSING->COMPLETED or PROCESSING->FAILED; hence a
\* COMPLETED or FAILED record never changes status again, in any cycle.
C1_StatusMoves ==
    [][\A r \in Ids :
          (status[r] # "ABSENT" /\ status'[r] # status[r])
              => <<status[r], status'[r]>> \in AllowedMoves]_vars

\* A record this worker finished stays as it is while a later record is at
\* the claim step.
C1_Witness ==
    \E r \in Ids :
        /\ claims[r] = 1
        /\ status[r] \in Terminal
        /\ pc["w1"] = "claim"
        /\ Cur("w1") # r

\* C2: when the processing of a claimed record has ended, the temp file
\* created for it is gone; and a record whose download failed ends FAILED.
C2_TempRemovedAndFailed ==
    \A w \in running :
        /\ pc[w] \in {"poll", "claim", "sleep"} =>
              \A f \in tmpfiles : f[1] # w
        /\ (pc[w] = "finally" /\ dl[w] = "raised") => status[Cur(w)] = "FAILED"

\* The part of C2 about the file alone: between records, and between
\* cycles, a worker has no temp file on disk.
TempFileRemoved ==
    \A w \in running :
        pc[w] \in {"poll", "claim", "sleep"} => \A f \in tmpfiles : f[1] # w

\* C3: when the handling of a claimed record reaches its end, the record is
\* COMPLETED exactly when the download succeeded and the runner exited with
\* code zero, and FAILED whenever the download raised, the invocation raised
\* or the runner exited non-zero.
C3_OutcomeDecidesStatus ==
    \A w \in running :
        pc[w] = "finally" =>
            /\ status[Cur(w)] = "COMPLETED" <=> (dl[w] = "ok" /\ rc[w] = "zero")
            /\ (dl[w] = "raised" \/ rc[w] \in {"raised", "nonzero"})
                  => status[Cur(w)] = "FAILED"

\* The direction of C3 that the code keeps: COMPLETED is written only after
\* a successful download and a zero exit code.
CompletedOnlyAfterSuccess ==
    [][\A r \in Ids :
          (status[r] # "COMPLETED" /\ status'[r] = "COMPLETED" /\ status[r] # "ABSENT")
              => \E w \in running : Cur(w) = r /\ dl[w] = "ok" /\ rc[w] = "zero"]_vars

\* C4: the worker claims only PENDING records it has not claimed before; no
\* record receives the PROCESSING write twice, and every record a worker is
\* downloading for or running the pipeline on was claimed exactly once.
C4_ClaimedAtMostOnce ==
    /\ \A r \in Ids : claims[r] <= 1
    /\ \A w \in running :
          /\ pc[w] = "claim" => (status[Cur(w)] = "PENDING" /\ claims[Cur(w)] = 0)
          /\ pc[w] \in Working => claims[Cur(w)] = 1

\* A record left PROCESSING by an earlier cycle while the worker is about
\* to claim another one.
C4_Witness ==
    \E r \in Ids :
        /\ claims[r] = 1
        /\ status[r] = "PROCESSING"
        /\ pc["w1"] = "claim"
        /\ Cur("w1") # r

\* C5: every record a worker has moved to PROCESSING eventually becomes
\* COMPLETED or FAILED.
C5_EventuallyTerminal ==
    \A r \in Ids :
        (\E w \in running : pc[w] = "mktemp" /\ Cur(w) = r)
            ~> (status[r] \in Terminal)

\* C6: when a worker leaves a poll cycle, whatever failed on the way, every
\* record of the fetched list after the current one has been claimed (none
\* is still PENDING), and no step changes the status of a record other than
\* the current one.
C6_FailureIsolation ==
    [][\A w \in running :
          /\ (pc[w] \in Working \cup {"claim"} /\ pc'[w] = "sleep")
                => \A i \in (idx[w] + 1)..Len(records[w]) :
                      status'[records[w][i]] # "PENDING"
          /\ pc[w] \in Working \cup {"claim"}
                => \A r \in Ids : (r # Cur(w) /\ status[r] # "ABSENT")
                      => status'[r] = status[r]]_vars

\* C7: when the parser output carried an error key, the runner exits with a
\* non-zero code and the worker goes to the failure handler, not to the
\* COMPLETED write.
C7_ErrorKeyFails ==
    [][\A w \in running :
          (pc[w] = "wait" /\ rpc[w] = "exited" /\ rdoc[w] = "error" /\ pc'[w] # pc[w])
              => (rcode[w] # 0 /\ pc'[w] = "except")]_vars

\* C8: a persistence failure inside the runner is swallowed: the runner
\* exits with code zero and the store is as before, and the worker then
\* marks the job COMPLETED.
C8_PersistFailureCompleted ==
    /\ [][\A p \in Runners :
             (rpc[p] = "persist" /\ persisted'[p] = "lost")
                 => (rpc'[p] = "exited" /\ rcode'[p] = 0 /\ UNCHANGED store)]_vars
    /\ [](\A w \in running :
             (pc[w] = "finally" /\ persisted[w] = "lost")
                 => status[Cur(w)] = "COMPLETED")

\* The part of C8 about the runner alone.
PersistFailureSwallowed ==
    [][\A p \in Runners :
          (rpc[p] = "persist" /\ persisted'[p] = "lost")
              => (rpc'[p] = "exited" /\ rcode'[p] = 0 /\ UNCHANGED store)]_vars

C10_ClaimBeforeWork ==
    /\ \A w \in running :
          pc[w] \in Working =>
              (status[Cur(w)] # "PENDING" /\ claims[Cur(w)] >= 1)
    /\ \A f \in tmpfiles : status[f[2]] # "PENDING"
    /\ \A w \in running :
          rpc[w] # "idle" => (pc[w] = "wait" /\ status[Cur(w)] # "PENDING")

\* The runner is parsing the downloaded temp file of a PROCESSING record.
C10_Witness ==
    /\ pc["w1"] = "wait"
    /\ rpc["w1"] = "parse"
    /\ <<"w1", Cur("w1")>> \in tmpfiles
    /\ status[Cur("w1")] = "PROCESSING"

\* C11: with one worker at most one record that a worker moved to
\* PROCESSING is PROCESSING, at most one worker temp file exists, at most
\* one worker-started runner is in flight, and when a worker is at the claim
\* step every record claimed before is COMPLETED or FAILED and no temp file
\* is left.
C11_StrictlySequential ==
    /\ Cardinality({r \in Ids : claims[r] >= 1 /\ status[r] = "PROCESSING"}) <= 1
    /\ Cardinality(tmpfiles) <= 1
    /\ Cardinality({w \in running : rpc[w] # "idle"}) <= 1
    /\ \A w \in running :
          pc[w] = "claim" =>
              /\ tmpfiles = {}
              /\ \A r \in Ids : claims[r] >= 1 => status[r] \in Terminal

\* The part of C11 about files and runner processes alone.
SequentialWork ==
    /\ Cardinality(tmpfiles) <= 1
    /\ Cardinality({w \in running : rpc[w] # "idle"}) <= 1
    /\ \A w \in running :
          pc[w] = "claim" => (tmpfiles = {} /\ rpc[w] = "idle")

\* C12: with two workers on one store, each successful PROCESSING write on a
\* record comes from a different worker that selected it (so a record
\* claimed twice was claimed by both workers, never twice by one), and a
\* worker past the claim step has written PROCESSING for its record; the
\* state in which both workers claimed the same record and both run the
\* pipeline for it is reachable (C12_BothClaim).
C12_ClaimedOncePerWorker ==
    /\ \A r \in Ids : claims[r] = Cardinality(claimers[r])
    /\ \A w \in running :
          pc[w] \in Working => (Cur(w) \in Ids /\ w \in claimers[Cur(w)])

C12_BothClaim ==
    \E r \in Ids :
        /\ claims[r] = 2
        /\ claimers[r] = AllWorkers
        /\ \A w \in AllWorkers :
              /\ pc[w] = "wait"
              /\ Cur(w) = r
              /\ rpc[w] \in {"parse", "mkjson", "analyze", "persist"}
              /\ rjob[w] = r

\* Record r is in the result of a worker's PENDING query.
Selected(r) ==
    \E w \in running : \E i \in 1..Len(records[w]) : records[w][i] = r

\* C13: a started worker is at the poll step again and again, every cycle
\* ends in the sleep of main_loop whatever happened in it, and a record that
\* is PENDING is eventually in the result of a later PENDING query.
C13_PollsForever ==
    /\ \A w \in AllWorkers : []<>(pc[w] = "poll")
    /\ \A w \in AllWorkers : (pc[w] # "poll") ~> (pc[w] = "sleep")
    /\ \A r \in Ids : (status[r] = "PENDING") ~> Selected(r)

\* The worker polls again after a cycle that an exception ended: a record it
\* claimed was left PROCESSING.
C13_Witness ==
    \E w \in running, r \in Ids :
        /\ pc[w] = "poll"
        /\ w \in claimers[r]
        /\ status[r] = "PROCESSING"

\* The class of an item as the claims name it.
IsSales(item) ==
    IsSubstring(KwIngreso, Lower(item.category))
        \/ IsSubstring(KwVenta, Lower(item.category))
IsCost(item) == ~IsSales(item) /\ IsSubstring(KwCosto, Lower(item.category))
IsExpense(item) ==
    /\ ~IsSales(item)
    /\ ~IsCost(item)
    /\ IsSubstring(KwGasto, Lower(item.category))
           \/ IsSubstring(KwAdmin, Lower(item.category))

RECURSIVE SumOver(_, _)
SumOver(I, f) ==
    IF I = {} THEN 0
    ELSE LET i == CHOOSE j \in I : TRUE IN f[i] + SumOver(I \ {i}, f)

Magnitude(x) == IF x < 0 THEN 0 - x ELSE x

ExampleItems ==
    << [category |-> KwVenta, amount |-> 1000],
       [category |-> KwCosto, amount |-> -400],
       [category |-> <<"g", "a", "s", "t", "o", " ", "a", "d", "m", "i", "n">>,
        amount |-> -700] >>

Fired(rule) == \E i \in 1..Len(improvements) : improvements[i] = rule

\* C18: once calculate_kpis has run, total_sales is the sum of the amounts
\* of the sales items, cost_of_sales and fixed_costs are the sums of the
\* absolute amounts of the cost and expense/admin items, net_income is
\* sales - cost - fixed, gross_margin_pct is 100*(sales-cost)/sales rounded
\* to the nearest hundredth when sales > 0 and 0 otherwise; the items venta
\* 1000, costo -400, gasto admin -700 give 1000, 400, 700, -100 and 60.00.
C18_KpiArithmetic ==
    apc \in {"rules", "done"} =>
        LET I == 1..Len(items)
            amt == [i \in I |-> items[i].amount]
            mag == [i \in I |-> Magnitude(items[i].amount)]
            s == kpis.total_sales
            c == kpis.cost_of_sales
            g == kpis.gross_margin_pct
        IN  /\ s = SumOver({i \in I : IsSales(items[i])}, amt)
            /\ c = SumOver({i \in I : IsCost(items[i])}, mag)
            /\ kpis.fixed_costs = SumOver({i \in I : IsExpense(items[i])}, mag)
            /\ kpis.net_income = s - c - kpis.fixed_costs
            /\ s > 0 => /\ 2 * (10000 * (s - c) - g * s) <= s
                        /\ 2 * (g * s - 10000 * (s - c)) <= s
            /\ ~(s > 0) => g = 0
            /\ items = ExampleItems =>
                  /\ s = 1000 /\ c = 400 /\ kpis.fixed_costs = 700
                  /\ kpis.net_income = 0 - 100 /\ g = 6000

C18_Witness == apc = "done" /\ items = ExampleItems

\* C19: once the rules have run, HIGH_FIXED_COSTS is among the improvements
\* exactly when sales > 0 and fixed costs exceed half of sales, LOW_GROSS_MARGIN
\* exactly when the gross margin is below 30.00, whatever the other rule
\* did; each appears at most once and HIGH_FIXED_COSTS comes first.
C19_RuleEngine ==
    apc = "done" =>
        /\ Fired("HIGH_FIXED_COSTS") <=>
              (kpis.total_sales > 0 /\ 2 * kpis.fixed_costs > kpis.total_sales)
        /\ Fired("LOW_GROSS_MARGIN") <=> kpis.gross_margin_pct < 3000
        /\ improvements \in {<<>>, <<"HIGH_FIXED_COSTS">>, <<"LOW_GROSS_MARGIN">>,
                             <<"HIGH_FIXED_COSTS", "LOW_GROSS_MARGIN">>}

C19_Witness ==
    /\ apc = "done"
    /\ improvements = <<"HIGH_FIXED_COSTS", "LOW_GROSS_MARGIN">>

\* Sales at exactly twice the fixed costs: the rule stays silent.
C19_AtHalf ==
    /\ apc = "done"
    /\ kpis.total_sales > 0
    /\ 2 * kpis.fixed_costs = kpis.total_sales
    /\ ~Fired("HIGH_FIXED_COSTS")

\* C20: LOW_GROSS_MARGIN fires at a gross margin of 29.99 and not at 30.00;
\* it fires for every margin below 30.00 and for none at or above it, and a
\* document without sales has margin 0 and fires it.
C20_StrictBoundary ==
    apc = "done" =>
        /\ kpis.gross_margin_pct = 2999 => Fired("LOW_GROSS_MARGIN")
        /\ kpis.gross_margin_pct = 3000 => ~Fired("LOW_GROSS_MARGIN")
        /\ kpis.gross_margin_pct >= 3000 => ~Fired("LOW_GROSS_MARGIN")
        /\ kpis.gross_margin_pct <= 2999 => Fired("LOW_GROSS_MARGIN")
        /\ kpis.total_sales = 0 =>
              (kpis.gross_margin_pct = 0 /\ Fired("LOW_GROSS_MARGIN"))

C20_Witness ==
    /\ apc = "done"
    /\ kpis.gross_margin_pct = 2999
    /\ Fired("LOW_GROSS_MARGIN")

\* The other side of the boundary.
C20_AtThirty ==
    /\ apc = "done"
    /\ kpis.gross_margin_pct = 3000
    /\ ~Fired("LOW_GROSS_MARGIN")

\* What the two stages give for the table the parser was run on.
MatrixOfInput == parse_financial_matrix(rows, Len(columns))
FlatOfInput == flat_parse(CleanNames(columns), rows)
MatrixYields == MatrixOfInput.kind = "document" /\ Len(MatrixOfInput.items) >= 1

\* Some column of the table is given this role; the first one that is.
HasRole(role) == \E i \in 1..Len(columns) : RoleOf(CleanName(columns[i])) = role
FirstWith(role) ==
    MinOf({i \in 1..Len(columns) : RoleOf(CleanName(columns[i])) = role})

\* C14: normalize returns the matrix result exactly when the matrix parse
\* yields at least one item, whatever the flat parse would give; otherwise
\* it returns exactly the flat result, a document or the amount-column
\* error.
C14_TwoStage ==
    npc = "done" =>
        LET m == MatrixOfInput
            yields == m.kind = "document" /\ Len(m.items) >= 1
        IN  /\ yields => result = m
            /\ ~yields => result = FlatOfInput
            /\ result = m => yields
            /\ result.kind \in {"document", "error"}
            /\ result.kind = "error" =>
                  result.error = "Could not identify Amount column"

\* The matrix result is returned although the flat parse has more items.
C14_Witness ==
    /\ npc = "done"
    /\ MatrixYields
    /\ result = MatrixOfInput
    /\ FlatOfInput.kind = "document"
    /\ Len(FlatOfInput.items) > Len(result.items)

\* A date is found but no item: the matrix result is dropped.
C14_Discarded ==
    /\ npc = "done"
    /\ MatrixOfInput.kind = "document"
    /\ MatrixOfInput.items = <<>>
    /\ result = FlatOfInput

\* C15: for a table with a column recognised as the amount column, normalize
\* returns a document with one item per data row, and a row whose amount
\* text cannot be parsed is there with amount 0.
C15_OneItemPerRow ==
    (npc = "done" /\ HasRole("amount")) =>
        /\ result.kind = "document"
        /\ Len(result.items) = Len(rows)

\* The part of C15 that holds: when the matrix parse yields nothing.
FlatOneItemPerRow ==
    (npc = "done" /\ HasRole("amount") /\ ~MatrixYields) =>
        /\ result.kind = "document"
        /\ Len(result.items) = Len(rows)
        /\ \A r \in 1..Len(rows) :
              LET cell == rows[r][column_map(columns)["amount"]]
              IN  (cell.k = "str" /\ ~FloatOf(Cleanup(cell.s)).ok) =>
                      (result.items[r].amount = 0 /\ ~result.items[r].nan)

\* C16: when the flat parse runs, it returns the amount-column error exactly
\* when no column has the amount role; otherwise the parse succeeds, and a
\* missing date, category or description role gives every item today's
\* date, "General" or "Unknown" for that field.
C16_AmountOnlyHardFailure ==
    (npc = "done" /\ ~MatrixYields) =>
        /\ result.kind = "error" <=> ~HasRole("amount")
        /\ HasRole("amount") =>
              /\ result.kind = "document"
              /\ \A i \in 1..Len(result.items) :
                    /\ ~HasRole("date") => result.items[i].date = Today
                    /\ ~HasRole("category") => result.items[i].category = TxtGeneral
                    /\ ~HasRole("description") =>
                          result.items[i].description = TxtUnknown

\* Only the amount role is mapped and the parse succeeds with the defaults.
C16_Witness ==
    /\ npc = "done"
    /\ ~MatrixYields
    /\ HasRole("amount")
    /\ ~HasRole("date") /\ ~HasRole("category") /\ ~HasRole("description")
    /\ result.kind = "document"
    /\ Len(result.items) >= 1

\* C17: when the flat parse succeeds, each role is read from the first
\* column, in column order, whose name matches the role's keywords: items
\* take their amount, date, category and description from that column.
C17_FirstMatchWins ==
    (npc = "done" /\ ~MatrixYields /\ result.kind = "document") =>
        \A r \in 1..Len(rows) :
            /\ result.items[r].amount = FlatAmount(rows[r][FirstWith("amount")]).v
            /\ result.items[r].nan = FlatAmount(rows[r][FirstWith("amount")]).nan
            /\ HasRole("date") =>
                  result.items[r].date = FlatDate(rows[r][FirstWith("date")])
            /\ HasRole("category") =>
                  result.items[r].category = StrOf(rows[r][FirstWith("category")])
            /\ HasRole("description") =>
                  result.items[r].description
                      = StrOf(rows[r][FirstWith("description")])

\* C21: a second call of normalize on the same table object returns the
\* items of the first call (today's date and year being the same for both),
\* and leaves the column names as the first call left them.
C21_Idempotent ==
    [][(npc = "done" /\ npc' = "twice") =>
          /\ again'.kind = result.kind
          /\ again'.items = result.items
          /\ again' = result
          /\ columns' = columns]_vars

\* The second call ran on column names the first call had reassigned, and
\* returned the same non-empty document.
C21_Witness ==
    /\ npc = "twice"
    /\ columns \notin HeaderPool
    /\ result.kind = "document"
    /\ Len(result.items) >= 1
    /\ again = result

\* The steps of a runner after the parser: the JSON file, the analyzer, the
\* persistence.
AfterParse == {"mkjson", "analyze", "persist"}

\* C22: a runner reaches the persistence step only from a successful
\* analyzer step, the analyzer step only after a parser output without an
\* error key; parsed_data, analysis_payload and the set of rows change only
\* in the persistence step; a run that ends at the parser (tool failure or
\* error key), at the JSON file or at the analyzer leaves the store as it
\* was.
C22_StepOrder ==
    /\ [](\A p \in Runners : rpc[p] \in AfterParse => rdoc[p] = "document")
    /\ [][\A p \in Runners :
             /\ (rpc'[p] = "mkjson" /\ rpc[p] # "mkjson") => rpc[p] = "parse"
             /\ (rpc'[p] = "analyze" /\ rpc[p] # "analyze") => rpc[p] = "mkjson"
             /\ (rpc'[p] = "persist" /\ rpc[p] # "persist") => rpc[p] = "analyze"
             /\ (rpc[p] \in {"parse", "mkjson", "analyze"} /\ rpc'[p] = "exited")
                   => (UNCHANGED <<parsed_data, analysis_payload>>
                       /\ persisted'[p] = "none"
                       /\ \A r \in Ids : (status[r] = "ABSENT") <=> (status'[r] = "ABSENT"))
             /\ persisted'[p] # persisted[p] /\ persisted'[p] # "none"
                   => rpc[p] = "persist"]_vars
    /\ [][(parsed_data' # parsed_data \/ analysis_payload' # analysis_payload
              \/ \E r \in Ids : status[r] = "ABSENT" /\ status'[r] # "ABSENT")
             => \E p \in Runners :
                   /\ rpc[p] = "persist" /\ rpc'[p] = "exited"
                   /\ rdoc[p] = "document"
                   /\ persisted'[p] = "saved"]_vars

\* A worker's runner wrote the record after both tools succeeded.
C22_Witness ==
    \E w \in running :
        /\ rpc[w] = "exited"
        /\ rdoc[w] = "document"
        /\ persisted[w] = "saved"
        /\ parsed_data[rjob[w]] = "document"
        /\ analysis_payload[rjob[w]] = "analysis"

\* A run stopped by a parser error key, the record untouched.
C22_ErrorKeyRun ==
    \E w \in running :
        /\ rpc[w] = "exited"
        /\ rdoc[w] = "error"
        /\ parsed_data[rjob[w]] = "NULL"
        /\ analysis_payload[rjob[w]] = "NULL"

\* C23: when a runner has finished, the JSON file it wrote for the analyzer
\* is gone, whether the analyzer succeeded or failed; and a worker that is
\* between cycles has left no temp file of its own.
C23_AllTempsRemoved ==
    /\ \A p \in Runners : rpc[p] = "exited" => p \notin jsonfiles
    /\ \A w \in running :
          pc[w] \in {"poll", "sleep"} => ~(\E r \in Ids : <<w, r>> \in tmpfiles)

\* The part of C23 that holds: the JSON file is gone when the analyzer
\* succeeded, and the worker's own temp file is always removed.
JsonRemovedOnSuccess ==
    /\ \A p \in Runners : rpc[p] = "persist" => p \notin jsonfiles
    /\ \A w \in running :
          pc[w] \in {"poll", "sleep"} => ~(\E r \in Ids : <<w, r>> \in tmpfiles)

\* C24: net_margin_pct is round(100 * net_income / total_sales, 2) when
\* total_sales > 0 and is 0 otherwise, also when the sales amounts sum to
\* zero or to a negative number.
C24_NetMarginGuard ==
    apc # "kpis" =>
        kpis.net_margin_pct =
            IF kpis.total_sales > 0
              THEN RoundPct(kpis.net_income, kpis.total_sales)
              ELSE 0

\* The part of C24 that holds: the formula for positive sales, and 0 when
\* the sales amounts sum to exactly zero (no division by zero).
NetMarginGuardedAtZero ==
    apc # "kpis" =>
        /\ kpis.total_sales > 0 =>
              kpis.net_margin_pct = RoundPct(kpis.net_income, kpis.total_sales)
        /\ kpis.total_sales = 0 => kpis.net_margin_pct = 0

\* A list with sales entries that cancel out has been analysed.
SalesCancelOut ==
    /\ apc # "kpis"
    /\ kpis.total_sales = 0
    /\ \E i \in 1..Len(items) : IsSales(items[i])

\* The row in which the date header of period column c was first detected.
HeaderRow(found, c) == MinOf(DateRows(found, c))

\* The items the cells strictly below their column's header row give, row by
\* row and, within a row, in the order of the period columns.
RECURSIVE ScopedItems(_, _, _, _)
ScopedItems(rws, r, cols, found) ==
    IF r > Len(rws) THEN <<>>
    ELSE RowItems(rws, r, SelectSeq(cols, LAMBDA c : r > HeaderRow(found, c)), found)
            \o ScopedItems(rws, r + 1, cols, found)

BelowHeaders ==
    LET found == HeadDates(rows, Len(columns))
    IN  ScopedItems(rows, 1,
                    InsertionOrder(found, Len(columns), DateCols(found, Len(columns))),
                    found)

\* C25: the items of the matrix parse are exactly the non-zero numeric cells
\* of the period columns in the rows strictly after the row where the
\* column's date header was detected: none from the header row or above,
\* none below it skipped.
C25_RowScope ==
    npc # "read" =>
        LET m == MatrixOfInput
        IN  m.kind = "document" =>
               /\ m.items = BelowHeaders
               /\ Len(m.items) > 0 => result.items = BelowHeaders

\* The part of C25 that holds: when every period column has its header in
\* the first or the second row of the frame, the items are exactly those
\* below the headers.
HeadersAtTop ==
    LET found == HeadDates(rows, Len(columns))
    IN  \A c \in DateCols(found, Len(columns)) : HeaderRow(found, c) <= StartRow
RowScopeWhenAtTop ==
    (npc # "read" /\ HeadersAtTop /\ MatrixOfInput.kind = "document") =>
        MatrixOfInput.items = BelowHeaders
AtTopWithItems ==
    npc # "read" /\ HeadersAtTop /\ MatrixYields

\* What the claim says of one item read from row r, period column c.
TextCell(cell) == cell.k = "str" /\ Len(Strip(cell.s)) >= 4
ReadFrom(item, r, c, found) ==
    LET row == rows[r]
        amt == MatrixAmount(row[c])
    IN  /\ amt.ok /\ amt.v = item.amount /\ item.amount # 0 /\ ~item.nan
        /\ item.date = found[MaxOf(DateRows(found, c))][c]
        /\ item.category = TxtStatement
        /\ \/ \E j \in 1..(c - 1) :
                 /\ TextCell(row[j])
                 /\ \A k \in (j + 1)..(c - 1) : ~TextCell(row[k])
                 /\ item.description = Strip(row[j].s)
           \/ /\ \A j \in 1..(c - 1) : ~TextCell(row[j])
              /\ item.description = TxtUnknown

\* C26: every item of the matrix parse has a non-zero amount, the date
\* resolved for the column it was read from, the placeholder category, and
\* as description the trimmed text of the nearest cell to its left that is
\* text of at least 4 characters, or "Unknown" when there is none.
C26_MatrixItemShape ==
    npc # "read" =>
        LET m == MatrixOfInput
            found == HeadDates(rows, Len(columns))
            Shaped(item) == \E r \in 1..Len(rows) :
                               \E c \in DateCols(found, Len(columns)) :
                                  ReadFrom(item, r, c, found)
        IN  m.kind = "document" =>
               /\ \A i \in 1..Len(m.items) : Shaped(m.items[i])
               /\ Len(m.items) > 0 => result = m

\* A matrix document with an item labelled by the nearer of two texts to
\* its left.
C26_Witness ==
    /\ npc = "done"
    /\ result.kind = "document"
    /\ \E i \in 1..Len(result.items) :
          /\ result.items[i].category = TxtStatement
          /\ result.items[i].description = <<"C", "a", "j", "a">>
          /\ result.items[i].amount = 250000

\* A matrix document with an item that has no text to its left.
UnlabelledItem ==
    /\ npc = "done"
    /\ result.kind = "document"
    /\ \E i \in 1..Len(result.items) :
          /\ result.items[i].category = TxtStatement
          /\ result.items[i].description = TxtUnknown

\* The rows of the step that existed before it and whose field f differs
\* after it.
Touched(f, g) == {r \in Ids : status[r] # "ABSENT" /\ f[r] # g[r]}

\* C27: a step that changes the status of an existing row is one of the
\* worker's three writes, changes the status of the worker's current record
\* only and no other field; a step that changes parsed_data or
\* analysis_payload of an existing row is the update of a runner, changes
\* those two fields of the runner's job only, leaves every status alone, and
\* is taken while the job is PROCESSING, before the worker that claimed it
\* writes COMPLETED or FAILED.
C27_FieldOwnership ==
    /\ [][Touched(status, status') # {} =>
             \E w \in running :
                /\ pc[w] \in {"claim", "complete", "except"}
                /\ Touched(status, status') = {Cur(w)}
                /\ status'[Cur(w)] =
                      (CASE pc[w] = "claim" -> "PROCESSING"
                         [] pc[w] = "complete" -> "COMPLETED"
                         [] pc[w] = "except" -> "FAILED")
                /\ UNCHANGED <<parsed_data, analysis_payload>>]_vars
    /\ [][(Touched(parsed_data, parsed_data') # {}
              \/ Touched(analysis_payload, analysis_payload') # {}) =>
             \E p \in Runners :
                /\ rpc[p] = "persist" /\ rjob[p] # NoJob
                /\ Touched(parsed_data, parsed_data') \subseteq {rjob[p]}
                /\ Touched(analysis_payload, analysis_payload') \subseteq {rjob[p]}
                /\ UNCHANGED status
                /\ status[rjob[p]] = "PROCESSING"
                /\ p \in running /\ rjob[p] = Cur(p) /\ pc[p] = "wait"]_vars

\* A job that went through the claim, the runner's update and the COMPLETED
\* write: each field holds what its owner wrote.
C27_Witness ==
    \E w \in running :
        /\ pc[w] = "finally"
        /\ persisted[w] = "saved"
        /\ status[Cur(w)] = "COMPLETED"
        /\ parsed_data[Cur(w)] = "document"
        /\ analysis_payload[Cur(w)] = "analysis"

\* The keywords a category contains, whatever the order of the tests.
HasSalesWord(item) ==
    IsSubstring(KwIngreso, Lower(item.category))
        \/ IsSubstring(KwVenta, Lower(item.category))
HasCostWord(item) == IsSubstring(KwCosto, Lower(item.category))
HasExpenseWord(item) ==
    IsSubstring(KwGasto, Lower(item.category))
        \/ IsSubstring(KwAdmin, Lower(item.category))

\* The list without its i-th item.
Without(its, i) == SubSeq(its, 1, i - 1) \o SubSeq(its, i + 1, Len(its))

\* C28: taking any one item out of the list changes at most one of
\* total_sales, cost_of_sales and fixed_costs; an item with no keyword
\* changes no KPI at all; an item with a sales keyword and a cost keyword
\* ("costo de venta") changes total_sales by its amount and leaves
\* cost_of_sales and fixed_costs alone.
C28_ExclusiveBuckets ==
    apc # "kpis" =>
        \A i \in 1..Len(items) :
            LET rest == calculate_kpis(Without(items, i))
                ds == kpis.total_sales - rest.total_sales
                dc == kpis.cost_of_sales - rest.cost_of_sales
                df == kpis.fixed_costs - rest.fixed_costs
                it == items[i]
            IN  /\ Cardinality({b \in {"s", "c", "f"} :
                                   \/ b = "s" /\ ds # 0
                                   \/ b = "c" /\ dc # 0
                                   \/ b = "f" /\ df # 0}) <= 1
                /\ (~HasSalesWord(it) /\ ~HasCostWord(it) /\ ~HasExpenseWord(it))
                      => kpis = rest
                /\ (HasSalesWord(it) /\ HasCostWord(it))
                      => (ds = it.amount /\ dc = 0 /\ df = 0)

\* A list with a "Costo de Venta" item and an item that matches no keyword
\* has been analysed.
C28_Witness ==
    /\ apc = "done"
    /\ \E i \in 1..Len(items) : HasSalesWord(items[i]) /\ HasCostWord(items[i])
    /\ \E i \in 1..Len(items) :
          ~HasSalesWord(items[i]) /\ ~HasCostWord(items[i]) /\ ~HasExpenseWord(items[i])

\* C29: when the analyzer has run on a document the matrix parse produced,
\* total_sales, cost_of_sales, fixed_costs, net_income and both ratios are 0
\* and the improvements are exactly LOW_GROSS_MARGIN, whatever amounts and
\* descriptions the sheet holds.
C29_MatrixDocumentKpis ==
    (apc = "done" /\ MatrixYields) =>
        /\ items = MatrixOfInput.items
        /\ kpis.total_sales = 0
        /\ kpis.cost_of_sales = 0
        /\ kpis.fixed_costs = 0
        /\ kpis.net_income = 0
        /\ kpis.gross_margin_pct = 0
        /\ kpis.net_margin_pct = 0
        /\ improvements = <<"LOW_GROSS_MARGIN">>

\* The analyzer has run on a matrix document whose items are described as
\* sales and costs, with amounts of both signs.
C29_Witness ==
    /\ apc = "done"
    /\ MatrixYields
    /\ \E i \in 1..Len(items) :
          /\ IsSubstring(KwVenta, Lower(items[i].description))
          /\ items[i].amount > 0
    /\ \E i \in 1..Len(items) :
          /\ IsSubstring(KwCosto, Lower(items[i].description))
          /\ items[i].amount < 0

\* The analyzer on a flat document does compute non-zero KPIs.
FlatDocumentKpis ==
    /\ apc = "done"
    /\ ~MatrixYields
    /\ kpis.total_sales # 0

====
